---- MODULE Spec2Model ----
(***************************************************************************)
(* Model of main.ipynb: the two-stage sarcasm-detection pipeline.          *)
(*   Stage 1: joint fine-tuning of the BERT/RoBERTa ensemble (Keras fit    *)
(*            with ReduceLROnPlateau and EarlyStopping callbacks).         *)
(*   Stage 2: embedding extraction and MLPClassifier fit / evaluation.     *)
(*   Serving: predict_sarcasm requests handled by the Gradio interface.    *)
(* Numeric collaborators (encoders, gradient descent, the MLP) are         *)
(* modelled as deterministic functions of their inputs; every array        *)
(* element carries the number of the dataset row it was computed from.     *)
(***************************************************************************)
EXTENDS Integers, Sequences, FiniteSets, TLC

(* ---------------- bounds of the model ---------------- *)
NumRows == 3
MaxLoss == 0
NumRequests == 2
LongTextLen == 71

(* ---------------- program constants ---------------- *)
max_seq_length == 70
Epochs == 1
LRPatience == 2
ESPatience == 4

Rows == 1..NumRows
Requests == 1..NumRequests

(* Raw comments are sequences of word numbers.  One comment fits in        *)
(* max_seq_length, the other is longer and gets truncated.                 *)
ShortText == <<7, 8>>
LongText == [i \in 1..LongTextLen |-> 9]
Texts == <<ShortText, LongText>>

(* ---------------- tokenizers ---------------- *)
(* A tokenizer is its vocabulary: special token ids and a word offset.     *)
bert_tokenizer == [cls |-> 101, sep |-> 102, pad |-> 0, off |-> 1000]
roberta_tokenizer == [cls |-> 0, sep |-> 2, pad |-> 1, off |-> 3]

Min(a, b) == IF a < b THEN a ELSE b

(* tokenizer(text, truncation=True, padding='max_length', max_length=n):   *)
(* [CLS] words [SEP], truncated to n tokens, padded to n; mask marks the   *)
(* real tokens.                                                            *)
Encodings(tokenizer, text, max_len) ==
    LET kept == Min(Len(text), max_len - 2)
        real == kept + 2
    IN  [input_ids |->
            [i \in 1..max_len |->
                IF i = 1 THEN tokenizer.cls
                ELSE IF i <= kept + 1 THEN tokenizer.off + text[i - 1]
                ELSE IF i = real THEN tokenizer.sep
                ELSE tokenizer.pad],
         attention_mask |-> [i \in 1..max_len |-> IF i <= real THEN 1 ELSE 0]]

(* tokenize_for_model: batch tokenisation, one row per text, in order.     *)
tokenize_for_model(tokenizer, txts, max_len) ==
    [input_ids |-> [i \in DOMAIN txts |->
                       [row |-> i, val |-> Encodings(tokenizer, txts[i], max_len).input_ids]],
     attention_mask |-> [i \in DOMAIN txts |->
                       [row |-> i, val |-> Encodings(tokenizer, txts[i], max_len).attention_mask]]]

(* ---------------- train_test_split ---------------- *)
Perms(n) == {p \in [1..n -> 1..n] : \A i, j \in 1..n : i # j => p[i] # p[j]}

(* test_size = 0.2: n_test = ceil(0.2 n), n_train = n - n_test.            *)
NTest(n) == (n + 4) \div 5
NTrain(n) == n - NTest(n)

(* One permutation per call, applied to every array of the call:           *)
(* test = perm[:n_test], train = perm[n_test:].                            *)
TrainPart(arr, perm) == [k \in 1..NTrain(Len(arr)) |-> arr[perm[NTest(Len(arr)) + k]]]
TestPart(arr, perm) == [k \in 1..NTest(Len(arr)) |-> arr[perm[k]]]

(* Variant: every array of the call shuffled on its own (the i-th by a     *)
(* rotation of perm).                                                      *)
SplitPermIndependent(i, perm) ==
    [j \in DOMAIN perm |-> perm[((j + i - 2) % Len(perm)) + 1]]

(* The permutation train_test_split uses for the i-th array of a call      *)
(* that drew permutation perm.                                             *)
SplitPermFor(i, perm) == perm

(* ---------------- losses and learning rate ---------------- *)
Num(v) == [kind |-> "num", v |-> v]
NaN == [kind |-> "nan", v |-> 0]
Inf == [kind |-> "inf", v |-> 0]
ValLosses == {Num(v) : v \in 0..MaxLoss} \cup {NaN}

(* np.less on floats with nan and +inf *)
Less(a, b) ==
    IF a.kind = "nan" \/ b.kind = "nan" THEN FALSE
    ELSE IF a.kind = "inf" THEN FALSE
    ELSE IF b.kind = "inf" THEN TRUE
    ELSE a.v < b.v

Minus(a, d) == IF a.kind = "num" THEN Num(a.v - d) ELSE a

(* learning rates are rationals num/den; Adam(learning_rate=3e-5)          *)
InitLR == [num |-> 3, den |-> 100000]
(* factor=0.5 *)
Factor == [num |-> 1, den |-> 2]
Times(x, y) == [num |-> x.num * y.num, den |-> x.den * y.den]

(* ---------------- script order ---------------- *)
(* Variant: the extraction statements written before the fit statement.   *)
ScriptOrderExtractFirst ==
    <<"load", "tokenize", "split", "build", "extractor", "extract_train", "fit",
      "extract_test", "mlp_fit", "evaluate", "launch", "serve">>

(* The statements of the script, in the order they are written.            *)
ScriptOrder ==
    <<"load", "tokenize", "split", "build", "fit", "extractor", "extract_train",
      "extract_test", "mlp_fit", "evaluate", "launch", "serve">>

After(p) ==
    LET i == CHOOSE k \in DOMAIN ScriptOrder : ScriptOrder[k] = p
    IN  ScriptOrder[i + 1]

VARIABLES pc, texts, labels,
          X_ids_bert, X_mask_bert, X_ids_roberta, X_mask_roberta,
          X_ids_bert_train, X_ids_bert_test, X_mask_bert_train, X_mask_bert_test,
          X_ids_roberta_train, X_ids_roberta_test,
          X_mask_roberta_train, X_mask_roberta_test, y_train, y_test,
          weights, lr, lr_scheduler, early_stopper, stop_training, epoch, history,
          embedding_extractor, train_embeddings, test_embeddings, mlp_clf, preds,
          req,
          stage1, fit_calls, fit_rows, lr_reductions

dataVars == <<texts, labels, X_ids_bert, X_mask_bert, X_ids_roberta, X_mask_roberta>>
splitVars == <<X_ids_bert_train, X_ids_bert_test, X_mask_bert_train, X_mask_bert_test,
               X_ids_roberta_train, X_ids_roberta_test,
               X_mask_roberta_train, X_mask_roberta_test, y_train, y_test>>
fitVars == <<weights, lr, lr_scheduler, early_stopper, stop_training, epoch, history,
             stage1, fit_calls, fit_rows, lr_reductions>>
stage2Vars == <<embedding_extractor, train_embeddings, test_embeddings, mlp_clf, preds>>
vars == <<pc, dataVars, splitVars, fitVars, stage2Vars, req>>

IdleReq == [pc |-> "idle", text |-> <<>>, emb |-> <<>>, out |-> ""]

Init ==
    /\ pc = "load"
    /\ texts = <<>> /\ labels = <<>>
    /\ X_ids_bert = <<>> /\ X_mask_bert = <<>>
    /\ X_ids_roberta = <<>> /\ X_mask_roberta = <<>>
    /\ X_ids_bert_train = <<>> /\ X_ids_bert_test = <<>>
    /\ X_mask_bert_train = <<>> /\ X_mask_bert_test = <<>>
    /\ X_ids_roberta_train = <<>> /\ X_ids_roberta_test = <<>>
    /\ X_mask_roberta_train = <<>> /\ X_mask_roberta_test = <<>>
    /\ y_train = <<>> /\ y_test = <<>>
    /\ weights = 0
    /\ lr = InitLR
    /\ lr_scheduler = [best |-> Inf, wait |-> 0]
    /\ early_stopper = [best |-> Inf, wait |-> 0, best_weights |-> -1, stopped_epoch |-> 0]
    /\ stop_training = FALSE
    /\ epoch = 0
    /\ history = <<>>
    /\ embedding_extractor = FALSE
    /\ train_embeddings = <<>> /\ test_embeddings = <<>>
    /\ mlp_clf = [fitted |-> FALSE, data |-> <<>>]
    /\ preds = <<>>
    /\ req = [r \in Requests |-> IdleReq]
    /\ stage1 = "pending"
    /\ fit_calls = 0
    /\ fit_rows = {}
    /\ lr_reductions = 0

(* lines 15-17: read the CSV; the comments cycle through Texts, the        *)
(* labels are arbitrary.                                                   *)
LoadData ==
    /\ pc = "load"
    /\ \E ls \in [Rows -> {0, 1}] :
          labels' = [i \in Rows |-> [row |-> i, val |-> ls[i]]]
    /\ texts' = [i \in Rows |-> Texts[((i - 1) % Len(Texts)) + 1]]
    /\ pc' = After("load")
    /\ UNCHANGED <<X_ids_bert, X_mask_bert, X_ids_roberta, X_mask_roberta,
                   splitVars, fitVars, stage2Vars, req>>

(* lines 32-33 *)
Tokenize ==
    /\ pc = "tokenize"
    /\ X_ids_bert' = tokenize_for_model(bert_tokenizer, texts, max_seq_length).input_ids
    /\ X_mask_bert' = tokenize_for_model(bert_tokenizer, texts, max_seq_length).attention_mask
    /\ X_ids_roberta' = tokenize_for_model(roberta_tokenizer, texts, max_seq_length).input_ids
    /\ X_mask_roberta' = tokenize_for_model(roberta_tokenizer, texts, max_seq_length).attention_mask
    /\ pc' = After("tokenize")
    /\ UNCHANGED <<texts, labels, splitVars, fitVars, stage2Vars, req>>

(* lines 38-55: one train_test_split call over the five arrays *)
Split ==
    /\ pc = "split"
    /\ \E perm \in Perms(NumRows) :
          /\ X_ids_bert_train' = TrainPart(X_ids_bert, SplitPermFor(1, perm))
          /\ X_ids_bert_test' = TestPart(X_ids_bert, SplitPermFor(1, perm))
          /\ X_mask_bert_train' = TrainPart(X_mask_bert, SplitPermFor(2, perm))
          /\ X_mask_bert_test' = TestPart(X_mask_bert, SplitPermFor(2, perm))
          /\ X_ids_roberta_train' = TrainPart(X_ids_roberta, SplitPermFor(3, perm))
          /\ X_ids_roberta_test' = TestPart(X_ids_roberta, SplitPermFor(3, perm))
          /\ X_mask_roberta_train' = TrainPart(X_mask_roberta, SplitPermFor(4, perm))
          /\ X_mask_roberta_test' = TestPart(X_mask_roberta, SplitPermFor(4, perm))
          /\ y_train' = TrainPart(labels, SplitPermFor(5, perm))
          /\ y_test' = TestPart(labels, SplitPermFor(5, perm))
    /\ pc' = After("split")
    /\ UNCHANGED <<dataVars, fitVars, stage2Vars, req>>

(* ---------------- the ensemble model ---------------- *)
(* Attention-weighted digest of a token row: padding positions (mask 0)    *)
(* do not contribute.                                                      *)
RECURSIVE WSum(_, _, _, _)
WSum(ids, mask, c, i) ==
    IF i = 0 THEN 0 ELSE (i + c) * ids[i] * mask[i] + WSum(ids, mask, c, i - 1)

(* lines 74-77: pooler_output of BERT under weights w *)
bert_branch(w, input_ids, attention_mask) ==
    <<w, WSum(input_ids, attention_mask, 0, Len(input_ids))>>

(* lines 86-89: first-token hidden state of RoBERTa under weights w *)
roberta_branch(w, input_ids, attention_mask) ==
    <<w, WSum(input_ids, attention_mask, 1, Len(input_ids))>>

(* line 94: Concatenate()([bert_output, roberta_output]) *)
combined_embedding(w, ids_b, mask_b, ids_r, mask_r) ==
    bert_branch(w, ids_b, mask_b) \o roberta_branch(w, ids_r, mask_r)

(* lines 132-135: Model(inputs=[bert ids, bert mask, roberta ids, roberta  *)
(* mask], outputs=combined_embedding).predict(inputs), row by row.         *)
ExtractorPredict(w, inputs) ==
    [k \in DOMAIN inputs[1] |->
        [row |-> inputs[1][k].row,
         val |-> combined_embedding(w, inputs[1][k].val, inputs[2][k].val,
                                       inputs[3][k].val, inputs[4][k].val)]]

(* Variant: predict runs a training step.                                  *)
WeightsAfterTrainingPredict(w) == w + 1

(* Model.predict runs the forward pass only: the weights after a predict   *)
(* call are the weights before it.                                         *)
WeightsAfterPredict(w) == w

RowsOf(arr) == {arr[k].row : k \in DOMAIN arr}

(* ---------------- callbacks ---------------- *)
(* Variant: a scheduler that decays the rate at the end of every epoch.    *)
ReduceLR_every_epoch(s, rate, current) ==
    [s |-> s, lr |-> Times(rate, [num |-> 1, den |-> 2]), reduced |-> TRUE]

(* ReduceLROnPlateau(monitor='val_loss', factor=0.5, patience=2).on_epoch_end,  *)
(* min_delta 1 loss unit, min_lr 0, cooldown 0.                            *)
ReduceLR_on_epoch_end(s, rate, current) ==
    IF Less(current, Minus(s.best, 1))
    THEN [s |-> [best |-> current, wait |-> 0], lr |-> rate, reduced |-> FALSE]
    ELSE IF s.wait + 1 >= LRPatience
         THEN IF rate.num > 0
              THEN [s |-> [s EXCEPT !.wait = 0], lr |-> Times(rate, Factor), reduced |-> TRUE]
              ELSE [s |-> [s EXCEPT !.wait = s.wait + 1], lr |-> rate, reduced |-> FALSE]
         ELSE [s |-> [s EXCEPT !.wait = s.wait + 1], lr |-> rate, reduced |-> FALSE]

(* EarlyStopping(monitor='val_loss', patience=4, restore_best_weights=True) *)
(* .on_epoch_end(e, logs) with the model holding weights w; -1 is None.    *)
EarlyStopping_on_epoch_end(s, e, w, current) ==
    LET bw == IF s.best_weights = -1 THEN w ELSE s.best_weights
    IN  IF Less(current, s.best)
        THEN [s |-> [best |-> current, wait |-> 0, best_weights |-> w,
                     stopped_epoch |-> s.stopped_epoch],
              stop |-> FALSE, weights |-> w]
        ELSE IF s.wait + 1 >= ESPatience /\ e > 0
             THEN [s |-> [best |-> s.best, wait |-> s.wait + 1, best_weights |-> bw,
                          stopped_epoch |-> e],
                   stop |-> TRUE, weights |-> bw]
             ELSE [s |-> [best |-> s.best, wait |-> s.wait + 1, best_weights |-> bw,
                          stopped_epoch |-> s.stopped_epoch],
                   stop |-> FALSE, weights |-> w]

(* Variant: the loop runs one epoch too many.                              *)
BudgetExhaustedOffByOne(e) == e >= Epochs + 1

(* the epoch loop of fit: for epoch in range(epochs) *)
BudgetExhausted(e) == e >= Epochs

(* Variant: the script inspects the History and stops on a nan val_loss.   *)
AfterFitChecked(h) ==
    IF Len(h) > 0 /\ h[Len(h)].val_loss.kind = "nan" THEN "aborted" ELSE After("fit")

(* fit returns its History and the script goes on to the next statement    *)
(* without looking at it.                                                  *)
AfterFit(h) == After("fit")

(* ---------------- Stage 1 ---------------- *)
(* lines 60-119: build the ensemble, compile with Adam(3e-5), make the     *)
(* callbacks.                                                              *)
Build ==
    /\ pc = "build"
    /\ weights' = 0
    /\ lr' = InitLR
    /\ lr_scheduler' = [best |-> Inf, wait |-> 0]
    /\ early_stopper' = [best |-> Inf, wait |-> 0, best_weights |-> -1, stopped_epoch |-> 0]
    /\ pc' = After("build")
    /\ UNCHANGED <<dataVars, splitVars, stop_training, epoch, history,
                   stage1, fit_calls, fit_rows, lr_reductions, stage2Vars, req>>

(* arguments of ensemble_model.fit, lines 121-123 *)
FitInputs == <<X_ids_bert_train, X_mask_bert_train, X_ids_roberta_train, X_mask_roberta_train>>
FitTargets == y_train

(* validation_split=0.1: the last tenth of the arrays handed to fit is     *)
(* held out for val_loss, the rest is trained on; split_at = int(0.9 n).   *)
SplitAt(n) == (9 * n) \div 10
TrainSlice(arr) == [k \in 1..SplitAt(Len(arr)) |-> arr[k]]
ValSlice(arr) == [k \in 1..(Len(arr) - SplitAt(Len(arr))) |-> arr[SplitAt(Len(arr)) + k]]

(* the rows a fit call on inputs xs and targets y reads *)
RowsRead(xs, y) ==
    RowsOf(TrainSlice(y)) \cup RowsOf(ValSlice(y))
        \cup UNION {RowsOf(TrainSlice(xs[i])) \cup RowsOf(ValSlice(xs[i])) : i \in DOMAIN xs}

(* line 121: fit is entered, on_train_begin resets the callbacks *)
FitBegin ==
    /\ pc = "fit" /\ stage1 = "pending"
    /\ stage1' = "running"
    /\ fit_calls' = fit_calls + 1
    /\ fit_rows' = fit_rows \cup RowsRead(FitInputs, FitTargets)
    /\ lr_scheduler' = [best |-> Inf, wait |-> 0]
    /\ early_stopper' = [best |-> Inf, wait |-> 0, best_weights |-> -1, stopped_epoch |-> 0]
    /\ stop_training' = FALSE
    /\ epoch' = 0
    /\ UNCHANGED <<pc, dataVars, splitVars, weights, lr, history, lr_reductions,
                   stage2Vars, req>>

(* one epoch: gradient descent gives new weights, the validation slice     *)
(* gives val_loss, then lr_scheduler and early_stopper run in that order.  *)
TrainEpoch ==
    /\ pc = "fit" /\ stage1 = "running"
    /\ ~BudgetExhausted(epoch) /\ ~stop_training
    /\ \E val_loss \in ValLosses :
          LET w == weights + 1
              r == ReduceLR_on_epoch_end(lr_scheduler, lr, val_loss)
              s == EarlyStopping_on_epoch_end(early_stopper, epoch, w, val_loss)
          IN  /\ lr_scheduler' = r.s
              /\ lr' = r.lr
              /\ lr_reductions' = IF r.reduced THEN lr_reductions + 1 ELSE lr_reductions
              /\ early_stopper' = s.s
              /\ stop_training' = s.stop
              /\ weights' = s.weights
              /\ history' = Append(history, [val_loss |-> val_loss, weights |-> w])
    /\ epoch' = epoch + 1
    /\ UNCHANGED <<pc, dataVars, splitVars, stage1, fit_calls, fit_rows, stage2Vars, req>>

(* the loop ends; on_train_end restores best_weights in the Keras          *)
(* versions that do so there.                                              *)
FitEnd ==
    /\ pc = "fit" /\ stage1 = "running"
    /\ BudgetExhausted(epoch) \/ stop_training
    /\ \E restore_on_train_end \in BOOLEAN :
          weights' = IF restore_on_train_end /\ early_stopper.best_weights # -1
                     THEN early_stopper.best_weights ELSE weights
    /\ stage1' = "done"
    /\ pc' = AfterFit(history)
    /\ UNCHANGED <<dataVars, splitVars, lr, lr_scheduler, early_stopper, stop_training,
                   epoch, history, fit_calls, fit_rows, lr_reductions, stage2Vars, req>>

(* an exception inside fit ends the script *)
FitFail ==
    /\ pc = "fit" /\ stage1 = "running"
    /\ ~BudgetExhausted(epoch) /\ ~stop_training
    /\ \E w \in {weights, weights + 1} : weights' = w
    /\ stage1' = "failed"
    /\ pc' = "aborted"
    /\ UNCHANGED <<dataVars, splitVars, lr, lr_scheduler, early_stopper, stop_training,
                   epoch, history, fit_calls, fit_rows, lr_reductions, stage2Vars, req>>

(* ---------------- Stage 2 ---------------- *)
(* MLPClassifier(random_state=42).fit(X, y): the fitted parameters are a   *)
(* function of the training pairs, kept here as the pairs themselves.      *)
MLPFit(X, y) ==
    [fitted |-> TRUE, data |-> [k \in DOMAIN X |-> <<X[k].val, y[k].val>>]]

(* mlp_clf.predict on one embedding: the majority label of the training    *)
(* pairs with that embedding, else the majority label of all pairs.        *)
MLPPredict(clf, e) ==
    LET ones == Cardinality({k \in DOMAIN clf.data : clf.data[k] = <<e, 1>>})
        zeros == Cardinality({k \in DOMAIN clf.data : clf.data[k] = <<e, 0>>})
        allOnes == Cardinality({k \in DOMAIN clf.data : clf.data[k][2] = 1})
    IN  IF ones + zeros > 0
        THEN (IF ones >= zeros THEN 1 ELSE 0)
        ELSE (IF 2 * allOnes > Len(clf.data) THEN 1 ELSE 0)

(* Variant: the classifier fitted on the test partition.                   *)
MLPFitArgsOnTest == [X |-> test_embeddings, y |-> y_test]

(* arguments of mlp_clf.fit, line 152 *)
MLPFitArgs == [X |-> train_embeddings, y |-> y_train]

(* lines 132-135 *)
BuildExtractor ==
    /\ pc = "extractor"
    /\ embedding_extractor' = TRUE
    /\ pc' = After("extractor")
    /\ UNCHANGED <<dataVars, splitVars, fitVars, train_embeddings, test_embeddings,
                   mlp_clf, preds, req>>

(* lines 136-139 *)
ExtractTrain ==
    /\ pc = "extract_train"
    /\ train_embeddings' = ExtractorPredict(weights,
          <<X_ids_bert_train, X_mask_bert_train, X_ids_roberta_train, X_mask_roberta_train>>)
    /\ weights' = WeightsAfterPredict(weights)
    /\ pc' = After("extract_train")
    /\ UNCHANGED <<dataVars, splitVars, lr, lr_scheduler, early_stopper, stop_training,
                   epoch, history, stage1, fit_calls, fit_rows, lr_reductions,
                   embedding_extractor, test_embeddings, mlp_clf, preds, req>>

(* lines 140-143 *)
ExtractTest ==
    /\ pc = "extract_test"
    /\ test_embeddings' = ExtractorPredict(weights,
          <<X_ids_bert_test, X_mask_bert_test, X_ids_roberta_test, X_mask_roberta_test>>)
    /\ weights' = WeightsAfterPredict(weights)
    /\ pc' = After("extract_test")
    /\ UNCHANGED <<dataVars, splitVars, lr, lr_scheduler, early_stopper, stop_training,
                   epoch, history, stage1, fit_calls, fit_rows, lr_reductions,
                   embedding_extractor, train_embeddings, mlp_clf, preds, req>>

(* lines 151-152 *)
FitMLP ==
    /\ pc = "mlp_fit"
    /\ mlp_clf' = MLPFit(MLPFitArgs.X, MLPFitArgs.y)
    /\ fit_rows' = fit_rows \cup RowsOf(MLPFitArgs.X) \cup RowsOf(MLPFitArgs.y)
    /\ pc' = After("mlp_fit")
    /\ UNCHANGED <<dataVars, splitVars, weights, lr, lr_scheduler, early_stopper,
                   stop_training, epoch, history, stage1, fit_calls, lr_reductions,
                   embedding_extractor, train_embeddings, test_embeddings, preds, req>>

(* line 156: preds = mlp_clf.predict(test_embeddings) *)
Evaluate ==
    /\ pc = "evaluate"
    /\ preds' = [k \in DOMAIN test_embeddings |-> MLPPredict(mlp_clf, test_embeddings[k].val)]
    /\ pc' = After("evaluate")
    /\ UNCHANGED <<dataVars, splitVars, fitVars, embedding_extractor, train_embeddings,
                   test_embeddings, mlp_clf, req>>

(* lines 213-221: iface.launch() starts serving predict_sarcasm *)
Launch ==
    /\ pc = "launch"
    /\ pc' = After("launch")
    /\ UNCHANGED <<dataVars, splitVars, fitVars, stage2Vars, req>>

(* ---------------- predict_sarcasm ---------------- *)
(* lines 197-204: the two tokenizer calls of predict_sarcasm *)
PredictEncodings(text) ==
    [bert |-> Encodings(bert_tokenizer, text, max_seq_length),
     roberta |-> Encodings(roberta_tokenizer, text, max_seq_length)]

(* Variant: the RoBERTa arrays handed over first.                          *)
PredictInputsSwapped(enc) ==
    <<  <<[row |-> 0, val |-> enc.roberta.input_ids]>>,
        <<[row |-> 0, val |-> enc.roberta.attention_mask]>>,
        <<[row |-> 0, val |-> enc.bert.input_ids]>>,
        <<[row |-> 0, val |-> enc.bert.attention_mask]>>  >>

(* line 207: the list handed to embedding_extractor.predict, one row each; *)
(* row 0 marks a text that is no dataset row.                              *)
PredictInputs(enc) ==
    <<  <<[row |-> 0, val |-> enc.bert.input_ids]>>,
        <<[row |-> 0, val |-> enc.bert.attention_mask]>>,
        <<[row |-> 0, val |-> enc.roberta.input_ids]>>,
        <<[row |-> 0, val |-> enc.roberta.attention_mask]>>  >>

(* line 211 *)
LabelString(pred) == IF pred = 1 THEN "Sarcastic" ELSE "Not Sarcastic"

(* Variant: emb kept in one module-level variable shared by all calls.     *)
EmbSlotShared(r) == 1

(* emb is a local of predict_sarcasm: each call r has its own.             *)
EmbSlot(r) == r

(* lines 195-207: a call of predict_sarcasm tokenises its text (local,     *)
(* pure) and runs embedding_extractor.predict on the shared weights.       *)
Submit(r) ==
    /\ pc = "serve" /\ req[r].pc = "idle"
    /\ \E i \in DOMAIN Texts :
          req' = [req EXCEPT ![r].text = Texts[i],
                             ![r].pc = "embedded",
                             ![EmbSlot(r)].emb =
                                 ExtractorPredict(weights,
                                     PredictInputs(PredictEncodings(Texts[i])))[1].val]
    /\ weights' = WeightsAfterPredict(weights)
    /\ UNCHANGED <<pc, dataVars, splitVars, lr, lr_scheduler, early_stopper, stop_training,
                   epoch, history, stage1, fit_calls, fit_rows, lr_reductions, stage2Vars>>

(* lines 210-211 *)
ReqClassify(r) ==
    /\ pc = "serve" /\ req[r].pc = "embedded"
    /\ req' = [req EXCEPT ![r].out = LabelString(MLPPredict(mlp_clf, req[EmbSlot(r)].emb)),
                          ![r].pc = "done"]
    /\ UNCHANGED <<pc, dataVars, splitVars, fitVars, stage2Vars>>

(* the response is delivered and the call's frame is gone *)
Respond(r) ==
    /\ pc = "serve" /\ req[r].pc = "done"
    /\ req' = [req EXCEPT ![r] = IdleReq]
    /\ UNCHANGED <<pc, dataVars, splitVars, fitVars, stage2Vars>>

Next ==
    \/ LoadData
    \/ Tokenize
    \/ Split
    \/ Build
    \/ FitBegin
    \/ TrainEpoch
    \/ FitEnd
    \/ FitFail
    \/ BuildExtractor
    \/ ExtractTrain
    \/ ExtractTest
    \/ FitMLP
    \/ Evaluate
    \/ Launch
    \/ \E r \in Requests : Submit(r)
    \/ \E r \in Requests : ReqClassify(r)
    \/ \E r \in Requests : Respond(r)

Spec == Init /\ [][Next]_vars

(* ======================= properties ======================= *)
Stage2Started ==
    \/ embedding_extractor
    \/ train_embeddings # <<>>
    \/ test_embeddings # <<>>
    \/ mlp_clf.fitted

(* C1: no Stage 2 operation (building or using the embedding extractor,    *)
(* fitting the MLP) happens before ensemble_model.fit has returned, and    *)
(* none happens in a run whose fit failed.                                 *)
C1_Stage2OnlyAfterStage1 ==
    /\ Stage2Started => stage1 = "done"
    /\ stage1 = "failed" => (~Stage2Started /\ pc = "aborted")

C1_Witness == stage1 = "done" /\ mlp_clf.fitted /\ train_embeddings # <<>>

(* C3: the weights change only while Stage 1 is running: extraction,       *)
(* classifier fit and predict, and every predict_sarcasm call leave them   *)
(* as they are.                                                            *)
C3_WeightsChangeOnlyInStage1 ==
    [][(weights' # weights) => stage1 = "running"]_vars

C3_Witness ==
    /\ stage1 = "done" /\ preds # <<>>
    /\ \E r \in Requests : req[r].pc = "done"
    /\ weights > 0

SameRow(k, a, b, c, d, y, oa, ob, oc, od, oy) ==
    LET i == y[k].row
    IN  /\ a[k].row = i /\ b[k].row = i /\ c[k].row = i /\ d[k].row = i
        /\ a[k] = oa[i] /\ b[k] = ob[i] /\ c[k] = oc[i] /\ d[k] = od[i] /\ y[k] = oy[i]

(* C4: after the split, at every index of train and of test the BERT ids,  *)
(* BERT mask, RoBERTa ids, RoBERTa mask and label are those of one and     *)
(* the same original row.                                                  *)
C4_SplitKeepsRowsTogether ==
    /\ \A k \in DOMAIN y_train :
          SameRow(k, X_ids_bert_train, X_mask_bert_train, X_ids_roberta_train,
                  X_mask_roberta_train, y_train,
                  X_ids_bert, X_mask_bert, X_ids_roberta, X_mask_roberta, labels)
    /\ \A k \in DOMAIN y_test :
          SameRow(k, X_ids_bert_test, X_mask_bert_test, X_ids_roberta_test,
                  X_mask_roberta_test, y_test,
                  X_ids_bert, X_mask_bert, X_ids_roberta, X_mask_roberta, labels)
    /\ Len(X_ids_bert_train) = Len(y_train) /\ Len(X_mask_bert_train) = Len(y_train)
    /\ Len(X_ids_roberta_train) = Len(y_train) /\ Len(X_mask_roberta_train) = Len(y_train)
    /\ Len(X_ids_bert_test) = Len(y_test) /\ Len(X_mask_bert_test) = Len(y_test)
    /\ Len(X_ids_roberta_test) = Len(y_test) /\ Len(X_mask_roberta_test) = Len(y_test)

C4_Witness ==
    /\ Len(y_train) = NTrain(NumRows) /\ Len(y_test) = NTest(NumRows)
    /\ \E k \in DOMAIN y_train : y_train[k].row # NTest(NumRows) + k
    /\ y_test[1].row # 1

TextIndex(text) == CHOOSE i \in DOMAIN Texts : Texts[i] = text

(* The embedding the batch path (tokenize_for_model, embedding_extractor   *)
(* on the four arrays) gives a text under weights w.                       *)
BatchEmbedding(w, text) ==
    LET b == tokenize_for_model(bert_tokenizer, <<text>>, max_seq_length)
        r == tokenize_for_model(roberta_tokenizer, <<text>>, max_seq_length)
    IN  ExtractorPredict(w,
            <<b.input_ids, b.attention_mask, r.input_ids, r.attention_mask>>)[1].val

(* BatchEmbedding tabulated over the weights a run can hold and the texts  *)
BatchEmbeddings ==
    <<  <<BatchEmbedding(0, Texts[1]), BatchEmbedding(0, Texts[2])>>,
        <<BatchEmbedding(1, Texts[1]), BatchEmbedding(1, Texts[2])>>,
        <<BatchEmbedding(2, Texts[1]), BatchEmbedding(2, Texts[2])>>  >>

(* The label the batch path (the embedding above, then mlp_clf.predict)    *)
(* gives a text.                                                           *)
BatchLabel(text) == MLPPredict(mlp_clf, BatchEmbeddings[weights + 1][TextIndex(text)])

(* C5: predict_sarcasm answers every text with the label the batch         *)
(* evaluation path yields for it: the label computed by the batch path on  *)
(* that text, and the entry of preds of every test row holding that text.  *)
C5_InferenceMatchesBatchPath ==
    \A r \in Requests :
        req[r].pc = "done" =>
            /\ req[r].out = LabelString(BatchLabel(req[r].text))
            /\ \A k \in DOMAIN preds :
                  texts[X_ids_bert_test[k].row] = req[r].text
                      => req[r].out = LabelString(preds[k])

C5_Witness ==
    \E r \in Requests :
        /\ req[r].pc = "done" /\ req[r].out = "Sarcastic"
        /\ \E k \in DOMAIN preds :
              texts[X_ids_bert_test[k].row] = req[r].text /\ preds[k] = 1
        /\ \E i \in DOMAIN mlp_clf.data : mlp_clf.data[i][2] = 0

TestRows ==
    RowsOf(y_test) \cup RowsOf(X_ids_bert_test) \cup RowsOf(X_mask_bert_test)
        \cup RowsOf(X_ids_roberta_test) \cup RowsOf(X_mask_roberta_test)

(* C6: no row of the test partition is consumed by a fitting operation     *)
(* (ensemble_model.fit with its validation slice, mlp_clf.fit).            *)
C6_NoTestRowInFit == fit_rows \cap TestRows = {}

C6_Witness ==
    /\ mlp_clf.fitted /\ preds # <<>>
    /\ fit_rows # {} /\ TestRows # {}
    /\ fit_calls = 1

(* EarlyStopping counts the epochs since val_loss last improved.           *)
ValLossNotImproved == early_stopper.wait > 0

BudgetRunOut == stage1 = "done" /\ BudgetExhausted(epoch) /\ ~stop_training

(* C7 as stated: a run whose Stage 1 used up its epochs with val_loss not  *)
(* improved and early stopping not triggered is ended as a failed run and  *)
(* never enters Stage 2.                                                   *)
C7_Original ==
    (BudgetRunOut /\ ValLossNotImproved) => (pc = "aborted" /\ ~Stage2Started)

(* C7 amended: in that case fit returns normally; the run is not retried   *)
(* (fit is called once), raises nothing, and goes on to Stage 2 with the   *)
(* weights of the last epoch.                                              *)
C7_Amended ==
    /\ []((BudgetRunOut /\ ValLossNotImproved) => (fit_calls = 1 /\ pc # "aborted"))
    /\ [][(/\ pc = "fit" /\ stage1 = "running"
           /\ BudgetExhausted(epoch) /\ ~stop_training /\ ValLossNotImproved)
          => (/\ pc' = "extractor" /\ stage1' = "done"
              /\ weights' = history[Len(history)].weights)]_vars
    /\ [][(pc = "extractor" /\ ValLossNotImproved) => embedding_extractor']_vars

C7_Witness ==
    /\ BudgetRunOut /\ ValLossNotImproved
    /\ history[Len(history)].val_loss = NaN
    /\ mlp_clf.fitted

(* C8: whatever the interleaving of predict_sarcasm calls, each call holds *)
(* the embedding and returns the label it would compute alone on its text. *)
AloneEmbedding(w, text) ==
    ExtractorPredict(w, PredictInputs(PredictEncodings(text)))[1].val

(* AloneEmbedding tabulated over the weights a run can hold and the texts  *)
AloneEmbeddings ==
    <<  <<AloneEmbedding(0, Texts[1]), AloneEmbedding(0, Texts[2])>>,
        <<AloneEmbedding(1, Texts[1]), AloneEmbedding(1, Texts[2])>>,
        <<AloneEmbedding(2, Texts[1]), AloneEmbedding(2, Texts[2])>>  >>

C8_ConcurrentReadsAgree ==
    \A r \in Requests :
        req[r].pc \in {"embedded", "done"} =>
            LET e == AloneEmbeddings[weights + 1][TextIndex(req[r].text)]
            IN  /\ req[r].emb = e
                /\ req[r].pc = "done" => req[r].out = LabelString(MLPPredict(mlp_clf, e))

C8_Witness ==
    \E r, q \in Requests :
        /\ r # q
        /\ req[r].pc = "done" /\ req[q].pc = "embedded"
        /\ req[r].text # req[q].text
        /\ MLPPredict(mlp_clf, req[r].emb) # MLPPredict(mlp_clf, req[q].emb)

RECURSIVE Pow2(_)
Pow2(k) == IF k = 0 THEN 1 ELSE 2 * Pow2(k - 1)

RECURSIVE BestBefore(_, _)
BestBefore(h, i) ==
    IF i <= 1 THEN Inf
    ELSE IF Less(h[i - 1].val_loss, BestBefore(h, i - 1)) THEN h[i - 1].val_loss
         ELSE BestBefore(h, i - 1)

NotImprovedAt(h, i) == ~Less(h[i].val_loss, Minus(BestBefore(h, i), 1))

(* val_loss failed to improve in each of the last LRPatience epochs *)
Plateau(h) ==
    /\ Len(h) >= LRPatience
    /\ \A i \in (Len(h) - LRPatience + 1)..Len(h) : NotImprovedAt(h, i)

C10_OneEpochNoCallbackFires ==
    /\ ~stop_training /\ early_stopper.stopped_epoch = 0
    /\ lr_reductions = 0 /\ lr = InitLR
    /\ epoch <= 1
    /\ stage1 = "done" =>
          /\ epoch = 1 /\ Len(history) = 1
          /\ weights = history[1].weights

C10_Witness ==
    /\ stage1 = "done" /\ pc = "serve"
    /\ train_embeddings # <<>>
    /\ train_embeddings[1].val[1] = history[1].weights

====
